---- MODULE Spec2Model ----
(***************************************************************************)
(* cpu-process-profiler: one check run of the Sensu plugin in main.go.     *)
(*                                                                         *)
(* main.go holds two revisions of the plugin.  Both share checkArgs and    *)
(* executeCheck; they differ in getTopCPUProcesses:                        *)
(*   "command"  (lines 149-229)  runs ps / tasklist and parses the text,   *)
(*   "direct"   (lines 260-291)  enumerates processes and queries each.    *)
(*                                                                         *)
(* Numbers.  float64 values are modelled as exact rationals n/d (d > 0)    *)
(* extended with NaN, +Inf and -Inf, so a division by zero gives what the  *)
(* hardware gives; rounding of float64 is not modelled.  CPU counters are  *)
(* whole ticks.  Text is a sequence of one-character strings.              *)
(***************************************************************************)
EXTENDS Integers, Sequences, FiniteSets, TLC

VARIABLES
    plugin,        \* Config: Critical, Warning, Interval (set by the flags)
    strategy,      \* which revision of getTopCPUProcesses is built
    toolchain,     \* which sort.Slice the build links (see SortSlice)
    host,          \* what the machine answers: GOOS, CPU counters, failures, process table
    alive,         \* pids of the host's table that have not exited yet
    exitsLeft,     \* how many more processes the host lets exit during the run
    pc,            \* position of the run
    start,         \* executeCheck: start[0]
    end,           \* executeCheck: end[0]
    pct,           \* executeCheck: the ten category percentages
    usedPct,       \* executeCheck: usedPct
    procs,         \* direct getTopCPUProcesses: the enumerated handles
    idx,           \* direct getTopCPUProcesses: loop position in procs
    cpuPercent,    \* direct getTopCPUProcesses: cpuPercent of the current iteration
    processes,     \* processes / processList before sort and truncation
    topProcesses,  \* what getTopCPUProcesses returned
    status,        \* the check state returned to the SDK
    err,           \* the error returned to the SDK ("" is nil)
    printed,       \* the usage line written to stdout ("" is none)
    steps,         \* history: the operations performed so far, in order
    queried        \* history: what the host answered for each queried handle

vars == <<plugin, strategy, toolchain, host, alive, exitsLeft, pc, start, end, pct,
          usedPct, procs, idx, cpuPercent, processes, topProcesses, status, err,
          printed, steps, queried>>

(***************************************************************************)
(* Bounds of the model.                                                    *)
(***************************************************************************)
MaxTick  == 2    \* every CPU counter of a snapshot is in 0..MaxTick
MaxRows  == 3    \* rows of a listing whose rows may be malformed
MaxProcs == 11   \* processes of a host whose rows are all well formed
MaxHot   == 1    \* processes of such a host whose CPU differs from the rest
MaxCPU   == 1    \* CPU levels 0..MaxCPU
MaxLive  == 3    \* processes of a host whose processes may exit
MaxExits == 2    \* exits during one run

(***************************************************************************)
(* Program constants.                                                      *)
(***************************************************************************)
CheckStateOK       == "OK"
CheckStateWarning  == "WARNING"
CheckStateCritical == "CRITICAL"

TopLimit           == 10            \* len(processes) > 10, processes[:10]
PsMinFields        == 11            \* len(fields) < 11
TasklistMinFields  == 8             \* len(fields) < 8

DefaultCritical    == 90
DefaultWarning     == 75
DefaultInterval    == 2

(***************************************************************************)
(* float64 as extended rationals.                                          *)
(***************************************************************************)
Num(n, d) == [k |-> "num", n |-> n, d |-> d]
NaN       == [k |-> "nan", n |-> 0, d |-> 1]
PosInf    == [k |-> "+inf", n |-> 0, d |-> 1]
NegInf    == [k |-> "-inf", n |-> 0, d |-> 1]
FInt(i)   == Num(i, 1)

\* x / y for two counters differences (float64 division: no panic on zero)
FDiv(x, y) ==
    IF y > 0 THEN Num(x, y)
    ELSE IF y < 0 THEN Num(-x, -y)
    ELSE IF x > 0 THEN PosInf
    ELSE IF x < 0 THEN NegInf
    ELSE NaN

\* f * 100
FMul100(f) == IF f.k = "num" THEN Num(f.n * 100, f.d) ELSE f

\* 100 - f
FFrom100(f) ==
    CASE f.k = "num"  -> Num(100 * f.d - f.n, f.d)
      [] f.k = "+inf" -> NegInf
      [] f.k = "-inf" -> PosInf
      [] f.k = "nan"  -> NaN

\* f > c for a float f and an integer-valued threshold c
FGt(f, c) ==
    CASE f.k = "num"  -> f.n > c * f.d
      [] f.k = "+inf" -> TRUE
      [] f.k = "-inf" -> FALSE
      [] f.k = "nan"  -> FALSE

(***************************************************************************)
(* cpu.TimesStat: the ten counters executeCheck reads.                     *)
(***************************************************************************)
Categories == {"User", "System", "Idle", "Nice", "Iowait", "Irq", "Softirq",
               "Steal", "Guest", "GuestNice"}
NonIdle    == Categories \ {"Idle"}

Snap(idle, c, v) ==
    [k \in Categories |-> IF k = "Idle" THEN idle ELSE IF k = c THEN v ELSE 0]
ZeroSnap  == Snap(0, "User", 0)
ZeroPct   == [k \in Categories |-> FInt(0)]

\* a total that forgets the last category
TimesTotalNoGuestNice(t) ==
    t.User + t.System + t.Idle + t.Nice + t.Iowait + t.Irq + t.Softirq
    + t.Steal + t.Guest

\* startTotal / endTotal
TimesTotal(t) ==
    t.User + t.System + t.Idle + t.Nice + t.Iowait + t.Irq + t.Softirq
    + t.Steal + t.Guest + t.GuestNice

\* diff := endTotal - startTotal
Diff(s, e) == TimesTotal(e) - TimesTotal(s)

\* ((end[0].X - start[0].X) / diff) * 100
CategoryPct(s, e, c) == FMul100(FDiv(e[c] - s[c], Diff(s, e)))

\* usedPct := 100 - idlePct
UsedPct(s, e) == FFrom100(CategoryPct(s, e, "Idle"))

(***************************************************************************)
(* Text: strings are sequences of one-character strings.                   *)
(***************************************************************************)
Digits == <<"0", "1", "2", "3", "4", "5", "6", "7", "8", "9">>
IsDigit(c)  == \E i \in 1..Len(Digits) : Digits[i] = c
DigitVal(c) == (CHOOSE i \in 1..Len(Digits) : Digits[i] = c) - 1

RECURSIVE Pow10(_)
Pow10(k) == IF k = 0 THEN 1 ELSE 10 * Pow10(k - 1)

\* fmt %d of a non-negative integer
RECURSIVE Itoa(_)
Itoa(n) == IF n < 10 THEN <<Digits[n + 1]>> ELSE Itoa(n \div 10) \o <<Digits[(n % 10) + 1]>>

\* the value of a string of digits
RECURSIVE DigitsVal(_)
DigitsVal(s) ==
    IF s = <<>> THEN 0 ELSE 10 * DigitsVal(SubSeq(s, 1, Len(s) - 1)) + DigitVal(s[Len(s)])

AllDigits(s) == \A i \in 1..Len(s) : IsDigit(s[i])

RECURSIVE Join(_, _)
Join(parts, sep) ==
    IF parts = <<>> THEN <<>>
    ELSE IF Len(parts) = 1 THEN Head(parts)
    ELSE Head(parts) \o sep \o Join(Tail(parts), sep)

\* the k-th smallest element of a set of positions
Nth(positions, k) ==
    CHOOSE p \in positions : Cardinality({q \in positions : q <= p}) = k

\* strings.Split(s, sep) for a one-character sep: always at least one piece
Split(s, sep) ==
    LET at     == {i \in 1..Len(s) : s[i] = sep}
        from(k) == IF k = 1 THEN 1 ELSE Nth(at, k - 1) + 1
        to(k)   == IF k = Cardinality(at) + 1 THEN Len(s) ELSE Nth(at, k) - 1
    IN  [k \in 1..(Cardinality(at) + 1) |-> SubSeq(s, from(k), to(k))]

Whitespace == {" ", "\t", "\r"}

\* strings.Fields(s): the maximal runs of non-space characters
Fields(s) ==
    LET first == {i \in 1..Len(s) :
                     s[i] \notin Whitespace /\ (i = 1 \/ s[i - 1] \in Whitespace)}
        last  == {i \in 1..Len(s) :
                     s[i] \notin Whitespace /\ (i = Len(s) \/ s[i + 1] \in Whitespace)}
    IN  [k \in 1..Cardinality(first) |-> SubSeq(s, Nth(first, k), Nth(last, k))]

\* strings.Trim(s, cutset) for a one-character cutset
RECURSIVE TrimLeft(_, _)
TrimLeft(s, c) == IF s # <<>> /\ Head(s) = c THEN TrimLeft(Tail(s), c) ELSE s
RECURSIVE TrimRight(_, _)
TrimRight(s, c) ==
    IF s # <<>> /\ s[Len(s)] = c THEN TrimRight(SubSeq(s, 1, Len(s) - 1), c) ELSE s
Trim(s, c) == TrimRight(TrimLeft(s, c), c)

\* strings.TrimSuffix(s, suffix)
TrimSuffix(s, suffix) ==
    IF Len(s) >= Len(suffix) /\ SubSeq(s, Len(s) - Len(suffix) + 1, Len(s)) = suffix
    THEN SubSeq(s, 1, Len(s) - Len(suffix))
    ELSE s

Unsigned(s) == IF s # <<>> /\ Head(s) \in {"+", "-"} THEN Tail(s) ELSE s
Sign(s)     == IF s # <<>> /\ Head(s) = "-" THEN -1 ELSE 1

\* strconv.Atoi(s): an optional sign and then digits only
Atoi(s) ==
    LET body == Unsigned(s)
    IN  IF body # <<>> /\ AllDigits(body)
        THEN [ok |-> TRUE, v |-> Sign(s) * DigitsVal(body)]
        ELSE [ok |-> FALSE, v |-> 0]

\* strconv.ParseFloat(s, 64) on decimal text: an optional sign, digits with at
\* most one point, at least one digit.  (Exponents, hex, "inf" and "nan" are
\* spelled with characters no text of this model contains.)
ParseFloat(s) ==
    LET body  == Unsigned(s)
        parts == Split(body, ".")
        ip    == parts[1]
        fp    == IF Len(parts) = 2 THEN parts[2] ELSE <<>>
    IN  IF /\ Len(parts) <= 2
           /\ AllDigits(ip) /\ AllDigits(fp)
           /\ Len(ip) + Len(fp) > 0
        THEN [ok |-> TRUE,
              v  |-> Num(Sign(s) * (DigitsVal(ip) * Pow10(Len(fp)) + DigitsVal(fp)),
                         Pow10(Len(fp)))]
        ELSE [ok |-> FALSE, v |-> NaN]

(***************************************************************************)
(* ProcessInfo and the ranking.                                            *)
(***************************************************************************)
ProcessInfo(pid, cpu, name) == [PID |-> pid, CPU |-> cpu, Name |-> name]

\* a less function that sorts ascending
LessAscending(a, b) == a.CPU.n * b.CPU.d < b.CPU.n * a.CPU.d

\* the less function handed to sort.Slice: processes[i].CPU > processes[j].CPU
Less(a, b) == a.CPU.n * b.CPU.d > b.CPU.n * a.CPU.d

Swap(data, i, j) == [data EXCEPT ![i] = data[j], ![j] = data[i]]

\* insertionSort: for j := i; j > a && less(j, j-1); j-- { swap(j, j-1) }
RECURSIVE SiftDown(_, _)
SiftDown(data, j) ==
    IF j > 1 /\ Less(data[j], data[j - 1]) THEN SiftDown(Swap(data, j, j - 1), j - 1) ELSE data

RECURSIVE InsertionSortFrom(_, _)
InsertionSortFrom(data, i) ==
    IF i > Len(data) THEN data ELSE InsertionSortFrom(SiftDown(data, i), i + 1)

InsertionSort(data) == InsertionSortFrom(data, 2)

\* before go1.19: for i := a + 6; i < b; i++ { if less(i, i-6) { swap(i, i-6) } }
RECURSIVE ShellPassFrom(_, _)
ShellPassFrom(data, i) ==
    IF i > Len(data) THEN data
    ELSE ShellPassFrom(IF Less(data[i], data[i - 6]) THEN Swap(data, i, i - 6) ELSE data,
                       i + 1)

ShellPass(data) == ShellPassFrom(data, 7)

Toolchains == {"go1.18", "go1.19"}

\* sort.Slice(processes, less).  The order of equal elements is not specified;
\* it is what the linked sort does.  For at most 12 elements that is an
\* insertion sort from go1.19 on (pdqsort) and a ShellSort pass with gap 6
\* followed by an insertion sort before (quickSort).  Longer slices are outside
\* this model.
SortSlice(data, tc) ==
    CASE Len(data) <= 12 /\ tc = "go1.19" -> InsertionSort(data)
      [] Len(data) <= 12 /\ tc = "go1.18" -> InsertionSort(ShellPass(data))

\* if len(processes) > 10 { processes = processes[:10] }
Truncate(data) == IF Len(data) > TopLimit THEN SubSeq(data, 1, TopLimit) ELSE data

\* sort, then keep only the top 10
Rank(data, tc) == Truncate(SortSlice(data, tc))

(***************************************************************************)
(* The host: what the process-listing utility prints for a process table.  *)
(* A row of the table is [Pid, CPU (tenths of a percent), Name, Shape];    *)
(* Shape says how the utility prints the row.                              *)
(***************************************************************************)
Shapes == {"ok", "args", "short", "badcpu", "badpid", "fracpid"}
WellFormed(row) == row.Shape \in {"ok", "args"}

CPUText(tenths) == Itoa(tenths \div 10) \o <<".">> \o Itoa(tenths % 10)
PidText(row) ==
    CASE row.Shape = "badpid"  -> <<"?">>
      [] row.Shape = "fracpid" -> Itoa(row.Pid) \o <<".", "5">>
      [] OTHER                 -> Itoa(row.Pid)
CpuFieldText(row) == IF row.Shape = "badcpu" THEN <<"?">> ELSE CPUText(row.CPU)

\* USER PID %CPU %MEM VSZ RSS TTY STAT START TIME COMMAND
PsHeader ==
    Join(<< <<"U", "S", "E", "R">>, <<"P", "I", "D">>, <<"%", "C", "P", "U">>,
            <<"%", "M", "E", "M">>, <<"V", "S", "Z">>, <<"R", "S", "S">>,
            <<"T", "T", "Y">>, <<"S", "T", "A", "T">>, <<"S", "T", "A", "R", "T">>,
            <<"T", "I", "M", "E">>, <<"C", "O", "M", "M", "A", "N", "D">> >>,
         <<" ", " ">>)

PsFields(row) ==
    LET head == << <<"r">>, PidText(row) >>
        body == << CpuFieldText(row), <<"0", ".", "1">>, <<"9">>, <<"4">>, <<"?">>,
                   <<"S">>, <<"1">>, <<"0">>, row.Name >>
    IN  CASE row.Shape = "short" -> head
          [] row.Shape = "args"  -> head \o body \o << <<"-", "d">> >>
          [] OTHER               -> head \o body

PsRow(row) == Join(PsFields(row), <<" ", " ">>)

Quote(f) == <<"\"">> \o f \o <<"\"">>

\* the eight columns parseProcessOutput reads a tasklist row as
TasklistFields(row) ==
    LET head == << Quote(row.Name), Quote(PidText(row)) >>
        body == << Quote(<<"c">>), Quote(<<"1">>), Quote(<<"9", " ", "K">>),
                   Quote(<<"R">>), Quote(<<"u">>),
                   Quote(CpuFieldText(row) \o <<" ", "K">>) >>
    IN  CASE row.Shape = "short" -> head
          [] row.Shape = "args"  -> head \o body \o << Quote(<<"w">>) >>
          [] OTHER               -> head \o body

TasklistRow(row) == Join(TasklistFields(row), <<",">>)

RECURSIVE MapRows(_, _)
MapRows(table, os) ==
    IF table = <<>> THEN <<>>
    ELSE << IF os = "windows" THEN TasklistRow(Head(table)) ELSE PsRow(Head(table)) >>
         \o MapRows(Tail(table), os)

\* cmd.Output(): the text the utility writes for the host's table
Listing(h) ==
    LET rows  == MapRows(h.table, h.GOOS)
        lines == IF h.GOOS = "windows" THEN rows ELSE <<PsHeader>> \o rows
    IN  IF h.mute \/ lines = <<>> THEN <<>> ELSE Join(lines, <<"\n">>) \o <<"\n">>

(***************************************************************************)
(* checkArgs and parseProcessOutput.                                       *)
(***************************************************************************)
Result(st, e) == [status |-> st, err |-> e]

checkArgs(cfg) ==
    IF cfg.Critical = 0 THEN Result(CheckStateWarning, "--critical is required")
    ELSE IF cfg.Warning = 0 THEN Result(CheckStateWarning, "--warning is required")
    ELSE IF cfg.Warning > cfg.Critical
         THEN Result(CheckStateWarning, "--warning cannot be greater than --critical")
    ELSE IF cfg.Interval = 0 THEN Result(CheckStateWarning, "--interval is required")
    ELSE Result(CheckStateOK, "")

\* an iteration that does not look at the error of strconv.Atoi
PsLineKeepBadPid(line) ==
    LET fields == Fields(line)
    IN  IF Len(fields) < PsMinFields THEN <<>>
        ELSE LET cpu == ParseFloat(fields[3])
                 pid == Atoi(fields[2])
             IN  IF ~cpu.ok THEN <<>>
                 ELSE <<ProcessInfo(pid.v, cpu.v, fields[11])>>

\* one iteration of the darwin/linux loop: the entries the line adds
PsLine(line) ==
    LET fields == Fields(line)
    IN  IF Len(fields) < PsMinFields THEN <<>>
        ELSE LET cpu == ParseFloat(fields[3])
                 pid == Atoi(fields[2])
             IN  IF ~cpu.ok THEN <<>>
                 ELSE IF ~pid.ok THEN <<>>
                 ELSE <<ProcessInfo(pid.v, cpu.v, fields[11])>>

\* one iteration of the windows loop
TasklistLine(line) ==
    LET fields == Split(line, ",")
    IN  IF Len(fields) < TasklistMinFields THEN <<>>
        ELSE LET cpu      == Trim(fields[8], "\"")
                 cpuFloat == ParseFloat(TrimSuffix(cpu, <<" ", "K">>))
                 pid      == Atoi(Trim(fields[2], "\""))
             IN  IF ~cpuFloat.ok THEN <<>>
                 ELSE IF ~pid.ok THEN <<>>
                 ELSE <<ProcessInfo(pid.v, cpuFloat.v, Trim(fields[1], "\""))>>

RECURSIVE PsLines(_)
PsLines(lines) == IF lines = <<>> THEN <<>> ELSE PsLine(Head(lines)) \o PsLines(Tail(lines))

RECURSIVE TasklistLines(_)
TasklistLines(lines) ==
    IF lines = <<>> THEN <<>> ELSE TasklistLine(Head(lines)) \o TasklistLines(Tail(lines))

\* parseProcessOutput up to the sort: the value of processes at line 219
ParseRows(output, os) ==
    LET lines == Split(output, "\n")
    IN  CASE os \in {"darwin", "linux"} -> PsLines(Tail(lines))   \* lines[1:], skip header
          [] os = "windows"             -> TasklistLines(lines)
          [] OTHER                      -> <<>>

\* parseProcessOutput: the returned slice (the error is always nil)
parseProcessOutput(output, os, tc) == Rank(ParseRows(output, os), tc)

\* a getTopCPUProcesses that does not look at the error of cmd.Output()
CommandErrorIgnoreExit(h) ==
    IF h.GOOS \notin {"darwin", "linux", "windows"} THEN "unsupported operating system"
    ELSE ""

\* getTopCPUProcesses of the command revision: the error it returns ("" is nil)
CommandError(h) ==
    IF h.GOOS \notin {"darwin", "linux", "windows"} THEN "unsupported operating system"
    ELSE IF h.cmdFails THEN "error executing command"
    ELSE ""

(***************************************************************************)
(* The runs considered: a configuration, a build and a host.              *)
(***************************************************************************)
Config(c, w, i) == [Critical |-> c, Warning |-> w, Interval |-> i]
DefaultConfig   == Config(DefaultCritical, DefaultWarning, DefaultInterval)

Thresholds == {-50, 0, 50, 100}
Intervals  == {-1, 0, DefaultInterval}
Configs    == {Config(c, w, i) : c \in Thresholds, w \in Thresholds, i \in Intervals}
\* the configurations executeCheck runs to the end with
Runnable   == {cfg \in Configs : checkArgs(cfg).err = "" /\ cfg.Interval = DefaultInterval}

Pair(a, b) == [A |-> a, B |-> b]
SnapshotPairs ==
    {Pair(Snap(ia, c, va), Snap(ib, c, vb)) :
        ia \in 0..MaxTick, va \in 0..MaxTick, ib \in 0..MaxTick, vb \in 0..MaxTick,
        c \in NonIdle}
\* half of the interval idle, half in user mode
BusyPair == Pair(ZeroSnap, Snap(1, "User", 1))
FewPairs == {Pair(ZeroSnap, Snap(ib, "System", vb)) : ib \in 0..1, vb \in 0..1}

Levels     == 0..MaxCPU
CPUOf(lvl) == lvl * 15
NameOf(i)  == IF i % 2 = 1 THEN <<"s", "h">> ELSE <<"g", "o">>
Row(i, lvl, shape) == [Pid |-> i, CPU |-> CPUOf(lvl), Name |-> NameOf(i), Shape |-> shape]

\* tables of well-formed rows: all at one level but for at most MaxHot rows
HotTables ==
    UNION {{[i \in 1..n |-> Row(i, IF i \in hot THEN h ELSE b, "ok")] :
               hot \in {x \in SUBSET (1..n) : Cardinality(x) <= MaxHot},
               b \in Levels, h \in Levels}
           : n \in 0..MaxProcs}

\* short tables whose rows have any shape
RECURSIVE ShapedTables(_)
ShapedTables(n) ==
    IF n = 0 THEN {<<>>}
    ELSE {Append(t, Row(n, n % (MaxCPU + 1), shape)) :
             t \in ShapedTables(n - 1), shape \in Shapes}
ParseTables == UNION {ShapedTables(n) : n \in 0..MaxRows}

\* short tables of well-formed rows, for hosts whose processes exit
LiveTables == {[i \in 1..n |-> Row(i, i % (MaxCPU + 1), "ok")] : n \in 0..MaxLive}

OneRow == <<Row(1, 1, "ok")>>

Host(os, pair, table) ==
    [GOOS |-> os, timesA |-> pair.A, timesB |-> pair.B, failA |-> FALSE, failB |-> FALSE,
     cmdFails |-> FALSE, enumFails |-> FALSE, mute |-> FALSE, table |-> table]

Run(cfg, strat, tc, h, exits) ==
    [plugin |-> cfg, strategy |-> strat, toolchain |-> tc, host |-> h, exits |-> exits]

Strategies == {"command", "direct"}

\* every configuration, on a host where everything works
ConfigRuns ==
    {Run(cfg, "direct", "go1.19", Host("linux", BusyPair, OneRow), 0) : cfg \in Configs}

\* every pair of snapshots, under every configuration that runs to the end
SampleRuns ==
    {Run(cfg, "direct", "go1.19", Host("linux", pair, OneRow), 0) :
        cfg \in Runnable, pair \in SnapshotPairs}

\* hosts on which one step fails
FailingHosts(pair) ==
    {[Host("linux", pair, OneRow) EXCEPT !.failA = TRUE],
     [Host("linux", pair, OneRow) EXCEPT !.failB = TRUE],
     [Host("linux", pair, OneRow) EXCEPT !.cmdFails = TRUE],
     [Host("darwin", pair, OneRow) EXCEPT !.cmdFails = TRUE],   \* ps of darwin has no --sort
     [Host("linux", pair, OneRow) EXCEPT !.enumFails = TRUE],
     Host("plan9", pair, OneRow),
     Host("linux", pair, OneRow)}
FailureRuns ==
    {Run(cfg, strat, "go1.19", h, 0) :
        cfg \in Runnable, strat \in Strategies,
        h \in UNION {FailingHosts(pair) : pair \in FewPairs}}

\* listings with malformed rows, and the listing that is empty
ParseRuns ==
    {Run(DefaultConfig, "command", "go1.19", Host(os, BusyPair, table), 0) :
        os \in {"linux", "windows"}, table \in ParseTables}
    \cup
    {Run(DefaultConfig, "command", "go1.19",
         [Host(os, BusyPair, <<>>) EXCEPT !.mute = TRUE], 0) :
        os \in {"linux", "windows"}}

\* long tables, for the ranking
RankRuns ==
    {Run(DefaultConfig, strat, tc, Host("linux", BusyPair, table), 0) :
        strat \in Strategies, tc \in Toolchains, table \in HotTables}

\* processes that exit while they are enumerated and queried
ExitRuns ==
    {Run(DefaultConfig, "direct", "go1.19", Host("linux", BusyPair, table), n) :
        table \in LiveTables, n \in 1..MaxExits}

Runs == ConfigRuns \cup SampleRuns \cup FailureRuns \cup ParseRuns \cup RankRuns \cup ExitRuns

TablePids(table) == {table[i].Pid : i \in 1..Len(table)}

Init ==
    \E r \in Runs :
        /\ plugin = r.plugin
        /\ strategy = r.strategy
        /\ toolchain = r.toolchain
        /\ host = r.host
        /\ alive = TablePids(r.host.table)
        /\ exitsLeft = r.exits
        /\ pc = "checkArgs"
        /\ start = ZeroSnap
        /\ end = ZeroSnap
        /\ pct = ZeroPct
        /\ usedPct = FInt(0)
        /\ procs = <<>>
        /\ idx = 1
        /\ cpuPercent = FInt(0)
        /\ processes = <<>>
        /\ topProcesses = <<>>
        /\ status = "NONE"
        /\ err = ""
        /\ printed = ""
        /\ steps = <<>>
        /\ queried = <<>>

(***************************************************************************)
(* The run.                                                                *)
(***************************************************************************)
\* return sensu.CheckStateX, fmt.Errorf(...): the run ends with an error
Fail(st, e) ==
    /\ status' = st
    /\ err' = e
    /\ pc' = "done"

\* main: the SDK calls checkArgs and, when it returns no error, executeCheck
Validate ==
    /\ pc = "checkArgs"
    /\ steps' = Append(steps, "checkArgs")
    /\ LET r == checkArgs(plugin)
       IN  IF r.err # "" THEN Fail(r.status, r.err)
           ELSE /\ pc' = "snapA"
                /\ UNCHANGED <<status, err>>
    /\ UNCHANGED <<plugin, strategy, toolchain, host, alive, exitsLeft, start, end, pct,
                   usedPct, procs, idx, cpuPercent, processes, topProcesses, printed, queried>>

\* an executeCheck that sets the failure and goes on to sleep
SnapshotAGoesOn ==
    /\ pc = "snapA"
    /\ steps' = Append(steps, "snapA")
    /\ IF host.failA
       THEN /\ status' = CheckStateCritical
            /\ err' = "error obtaining CPU timings"
            /\ pc' = "sleep"
            /\ UNCHANGED start
       ELSE /\ start' = host.timesA
            /\ pc' = "sleep"
            /\ UNCHANGED <<status, err>>
    /\ UNCHANGED <<plugin, strategy, toolchain, host, alive, exitsLeft, end, pct,
                   usedPct, procs, idx, cpuPercent, processes, topProcesses, printed,
                   queried>>

\* executeCheck: start, err := cpu.Times(false)
SnapshotA ==
    /\ pc = "snapA"
    /\ steps' = Append(steps, "snapA")
    /\ IF host.failA
       THEN /\ Fail(CheckStateCritical, "error obtaining CPU timings")
            /\ UNCHANGED start
       ELSE /\ start' = host.timesA
            /\ pc' = "sleep"
            /\ UNCHANGED <<status, err>>
    /\ UNCHANGED <<plugin, strategy, toolchain, host, alive, exitsLeft, end, pct,
                   usedPct, procs, idx, cpuPercent, processes, topProcesses, printed, queried>>

\* time.ParseDuration(fmt.Sprintf("%ds", plugin.Interval)) fails when the seconds
\* do not fit int64 nanoseconds (more than 9223372036 s either way).  The limit is
\* compared in units of 10 s because TLC's integers are 32 bits wide; no
\* interval of the model reaches it.
ParseDurationFails(seconds) ==
    seconds \div 10 > 922337203 \/ (-seconds) \div 10 > 922337203

\* executeCheck: duration, err := time.ParseDuration(...); time.Sleep(duration)
Sleep ==
    /\ pc = "sleep"
    /\ IF ParseDurationFails(plugin.Interval)
       THEN /\ Fail(CheckStateCritical, "error parsing duration")
            /\ UNCHANGED steps
       ELSE /\ steps' = Append(steps, "sleep")
            /\ pc' = "snapB"
            /\ UNCHANGED <<status, err>>
    /\ UNCHANGED <<plugin, strategy, toolchain, host, alive, exitsLeft, start, end, pct,
                   usedPct, procs, idx, cpuPercent, processes, topProcesses, printed, queried>>

\* executeCheck: end, err := cpu.Times(false), and the percentages
SnapshotB ==
    /\ pc = "snapB"
    /\ steps' = Append(steps, "snapB")
    /\ IF host.failB
       THEN /\ Fail(CheckStateCritical, "error obtaining CPU timings")
            /\ UNCHANGED <<end, pct, usedPct>>
       ELSE /\ end' = host.timesB
            /\ pct' = [c \in Categories |-> CategoryPct(start, host.timesB, c)]
            /\ usedPct' = UsedPct(start, host.timesB)
            /\ pc' = "acquire"
            /\ UNCHANGED <<status, err>>
    /\ UNCHANGED <<plugin, strategy, toolchain, host, alive, exitsLeft, start,
                   procs, idx, cpuPercent, processes, topProcesses, printed, queried>>

\* executeCheck: topProcesses, err := getTopCPUProcesses(), command revision
GetTopCPUProcessesCommand ==
    /\ pc = "acquire"
    /\ strategy = "command"
    /\ steps' = Append(steps, "acquire")
    /\ IF CommandError(host) # ""
       THEN /\ Fail(CheckStateCritical, "error obtaining top CPU processes")
            /\ UNCHANGED <<processes, topProcesses>>
       ELSE /\ processes' = ParseRows(Listing(host), host.GOOS)
            /\ topProcesses' = parseProcessOutput(Listing(host), host.GOOS, toolchain)
            /\ pc' = "report"
            /\ UNCHANGED <<status, err>>
    /\ UNCHANGED <<plugin, strategy, toolchain, host, alive, exitsLeft, start, end, pct,
                   usedPct, procs, idx, cpuPercent, printed, queried>>

IsAlive(row) == row.Pid \in alive

\* the loop of the direct revision moves on to the next handle, or leaves
Continue ==
    /\ idx' = idx + 1
    /\ pc' = IF idx + 1 > Len(procs) THEN "rank" ELSE "cpuPercent"

\* direct revision: procs, err := process.Processes()
Enumerate ==
    /\ pc = "acquire"
    /\ strategy = "direct"
    /\ steps' = Append(steps, "acquire")
    /\ IF host.enumFails
       THEN /\ Fail(CheckStateCritical, "error obtaining top CPU processes")
            /\ UNCHANGED procs
       ELSE /\ procs' = SelectSeq(host.table, IsAlive)
            /\ pc' = IF SelectSeq(host.table, IsAlive) = <<>> THEN "rank" ELSE "cpuPercent"
            /\ UNCHANGED <<status, err>>
    /\ UNCHANGED <<plugin, strategy, toolchain, host, alive, exitsLeft, start, end, pct,
                   usedPct, idx, cpuPercent, processes, topProcesses, printed, queried>>

Answer(row, cpuOk, nameOk) == [Pid |-> row.Pid, cpu |-> cpuOk, name |-> nameOk]

\* direct revision: cpuPercent, err := p.CPUPercent(); it fails for a process that is gone
QueryCPUPercent ==
    /\ pc = "cpuPercent"
    /\ IF IsAlive(procs[idx])
       THEN /\ cpuPercent' = Num(procs[idx].CPU, 10)
            /\ pc' = "name"
            /\ UNCHANGED <<idx, queried>>
       ELSE /\ Continue
            /\ queried' = Append(queried, Answer(procs[idx], FALSE, FALSE))
            /\ UNCHANGED cpuPercent
    /\ UNCHANGED <<plugin, strategy, toolchain, host, alive, exitsLeft, start, end, pct,
                   usedPct, procs, processes, topProcesses, status, err, printed, steps>>

\* an iteration that does not look at the error of p.Name()
QueryNameUnchecked ==
    /\ pc = "name"
    /\ processes' = Append(processes, ProcessInfo(procs[idx].Pid, cpuPercent, procs[idx].Name))
    /\ queried' = Append(queried, Answer(procs[idx], TRUE, IsAlive(procs[idx])))
    /\ Continue
    /\ UNCHANGED <<plugin, strategy, toolchain, host, alive, exitsLeft, start, end, pct,
                   usedPct, procs, cpuPercent, topProcesses, status, err, printed, steps>>

\* direct revision: name, err := p.Name(); processList = append(processList, ...)
QueryName ==
    /\ pc = "name"
    /\ processes' =
          IF IsAlive(procs[idx])
          THEN Append(processes, ProcessInfo(procs[idx].Pid, cpuPercent, procs[idx].Name))
          ELSE processes
    /\ queried' = Append(queried, Answer(procs[idx], TRUE, IsAlive(procs[idx])))
    /\ Continue
    /\ UNCHANGED <<plugin, strategy, toolchain, host, alive, exitsLeft, start, end, pct,
                   usedPct, procs, cpuPercent, topProcesses, status, err, printed, steps>>

\* direct revision: sort, keep the top 10, return
RankDirect ==
    /\ pc = "rank"
    /\ topProcesses' = Rank(processes, toolchain)
    /\ pc' = "report"
    /\ UNCHANGED <<plugin, strategy, toolchain, host, alive, exitsLeft, start, end, pct,
                   usedPct, procs, idx, cpuPercent, processes, status, err, printed, steps, queried>>

\* the host: a process exits while the direct revision lists the processes
ProcessExit ==
    /\ pc \in {"acquire", "cpuPercent", "name"}
    /\ strategy = "direct"
    /\ exitsLeft > 0
    /\ \E pid \in alive : alive' = alive \ {pid}
    /\ exitsLeft' = exitsLeft - 1
    /\ UNCHANGED <<plugin, strategy, toolchain, host, pc, start, end, pct, usedPct, procs,
                   idx, cpuPercent, processes, topProcesses, status, err, printed, steps, queried>>

\* f >= c
FGe(f, c) == f.k = "+inf" \/ (f.k = "num" /\ f.n >= c * f.d)

\* a status that a value equal to the threshold already triggers
StatusOfInclusive(used, cfg) ==
    IF FGe(used, cfg.Critical) THEN CheckStateCritical
    ELSE IF FGe(used, cfg.Warning) THEN CheckStateWarning
    ELSE CheckStateOK

\* the status executeCheck chooses from usedPct
StatusOf(used, cfg) ==
    IF FGt(used, cfg.Critical) THEN CheckStateCritical
    ELSE IF FGt(used, cfg.Warning) THEN CheckStateWarning
    ELSE CheckStateOK

\* executeCheck: the process list, the usage line and the status
Report ==
    /\ pc = "report"
    /\ steps' = Append(steps, "report")
    /\ status' = StatusOf(usedPct, plugin)
    /\ printed' = StatusOf(usedPct, plugin)
    /\ err' = ""
    /\ pc' = "done"
    /\ UNCHANGED <<plugin, strategy, toolchain, host, alive, exitsLeft, start, end, pct,
                   usedPct, procs, idx, cpuPercent, processes, topProcesses, queried>>

Next ==
    \/ Validate
    \/ SnapshotA
    \/ Sleep
    \/ SnapshotB
    \/ GetTopCPUProcessesCommand
    \/ Enumerate
    \/ QueryCPUPercent
    \/ QueryName
    \/ RankDirect
    \/ ProcessExit
    \/ Report

Spec == Init /\ [][Next]_vars

(***************************************************************************)
(* The claims.                                                             *)
(***************************************************************************)
InSteps(x)     == \E i \in 1..Len(steps) : steps[i] = x
IsPrefix(s, t) == Len(s) <= Len(t) /\ SubSeq(t, 1, Len(s)) = s
RunOrder       == <<"checkArgs", "snapA", "sleep", "snapB", "acquire", "report">>
UpTo(x)        == SubSeq(RunOrder, 1, CHOOSE i \in 1..Len(RunOrder) : RunOrder[i] = x)

\* the run went through Report
Reported == pc = "done" /\ InSteps("report")
\* getTopCPUProcesses has returned a list
Returned == pc = "report" \/ Reported
\* both snapshots were taken
Sampled  == InSteps("snapB") /\ ~host.failB

RECURSIVE SumOver(_, _)
SumOver(f, S) ==
    IF S = {} THEN 0
    ELSE LET x == CHOOSE y \in S : TRUE IN f[x] + SumOver(f, S \ {x})

\* T = sum(all categories, B) - sum(all categories, A)
TotalDelta == SumOver(end, Categories) - SumOver(start, Categories)

FAdd(f, g) ==
    IF f.d = g.d THEN Num(f.n + g.n, f.d) ELSE Num(f.n * g.d + g.n * f.d, f.d * g.d)
FEq(f, g) == f.k = "num" /\ g.k = "num" /\ f.n * g.d = g.n * f.d

RECURSIVE SumPct(_)
SumPct(S) ==
    IF S = {} THEN FInt(0)
    ELSE LET x == CHOOSE y \in S : TRUE IN FAdd(pct[x], SumPct(S \ {x}))

\* C1: when both snapshots and the process listing succeeded, the run ends
\* without an error, CRITICAL if usedPct > critical, else WARNING if
\* usedPct > warning, else OK; a usedPct equal to a threshold does not trigger
\* that threshold's status.
C1_ThresholdStatus ==
    Reported =>
        /\ err = ""
        /\ status \in {CheckStateOK, CheckStateWarning, CheckStateCritical}
        /\ (status = CheckStateCritical) = FGt(usedPct, plugin.Critical)
        /\ (status = CheckStateWarning) =
              (~FGt(usedPct, plugin.Critical) /\ FGt(usedPct, plugin.Warning))
        /\ FEq(usedPct, FInt(plugin.Critical)) => status # CheckStateCritical
        /\ FEq(usedPct, FInt(plugin.Warning)) => status = CheckStateOK
        /\ printed = status

\* a run reported with usedPct exactly at the critical threshold and above the warning one
C1_Witness ==
    /\ Reported
    /\ FEq(usedPct, FInt(plugin.Critical))
    /\ plugin.Warning < plugin.Critical
    /\ status = CheckStateWarning

\* C2: when the two snapshots give totalDelta <= 0 the sampler fails: the run
\* ends CRITICAL with a measurement error and reports no usage line.
C2_NonPositiveDeltaFails ==
    (Sampled /\ TotalDelta <= 0) =>
        /\ pc = "done"
        /\ status = CheckStateCritical
        /\ err # ""
        /\ printed = ""

\* the four conditions on the flags
ValidConfig(cfg) ==
    cfg.Critical > 0 /\ cfg.Warning > 0 /\ cfg.Warning <= cfg.Critical /\ cfg.Interval > 0

\* C3: a configuration violating any of critical > 0, warning > 0,
\* warning <= critical, sample-interval > 0 ends the run at checkArgs with
\* WARNING and an error, before any snapshot, sleep or listing; a configuration
\* satisfying all four passes checkArgs without an error.
C3_InvalidConfigRejected ==
    InSteps("checkArgs") =>
        IF ValidConfig(plugin)
        THEN ~(steps = <<"checkArgs">> /\ err # "")
        ELSE /\ steps = <<"checkArgs">>
             /\ pc = "done"
             /\ status = CheckStateWarning
             /\ err # ""

Range(seq) == {seq[i] : i \in 1..Len(seq)}
Min(a, b)  == IF a < b THEN a ELSE b
\* a.CPU >= b.CPU
CpuGe(a, b) == a.CPU.n * b.CPU.d >= b.CPU.n * a.CPU.d
CpuSame(a, b) == a.CPU.n * b.CPU.d = b.CPU.n * a.CPU.d
LeftOut == Range(processes) \ Range(topProcesses)

\* C4: the returned list has exactly min(n, 10) of the n obtained samples, in
\* non-increasing order of CPU, and no sample left out has more CPU than a
\* returned one.
C4_TopTenDescending ==
    Returned =>
        /\ Len(topProcesses) = Min(Len(processes), TopLimit)
        /\ Range(topProcesses) \subseteq Range(processes)
        /\ Cardinality(Range(topProcesses)) = Len(topProcesses)
        /\ \A i \in 1..Len(topProcesses) : \A j \in i..Len(topProcesses) :
              CpuGe(topProcesses[i], topProcesses[j])
        /\ \A x \in LeftOut : \A y \in Range(topProcesses) : CpuGe(y, x)

\* more than ten samples of which one above the rest was found last
C4_Witness ==
    /\ Returned
    /\ Len(processes) > TopLimit
    /\ Len(topProcesses) = TopLimit
    /\ ~CpuSame(processes[Len(processes)], processes[1])
    /\ topProcesses[1] = processes[Len(processes)]

\* the place of a sample in the order of discovery
Found(x) == CHOOSE i \in 1..Len(processes) : processes[i] = x

\* C5: of two samples with equal CPU the one discovered earlier comes first in
\* the returned list, and when a tie straddles the cut the earlier ones are kept.
C5_StableRanking ==
    Returned =>
        /\ \A i \in 1..Len(topProcesses) : \A j \in (i + 1)..Len(topProcesses) :
              CpuSame(topProcesses[i], topProcesses[j])
                 => Found(topProcesses[i]) < Found(topProcesses[j])
        /\ \A x \in LeftOut : \A y \in Range(topProcesses) :
              CpuSame(x, y) => Found(y) < Found(x)

RECURSIVE Candidates(_)
\* one entry per well-formed row of the table, in the order of the rows
Candidates(table) ==
    IF table = <<>> THEN <<>>
    ELSE (IF WellFormed(Head(table))
          THEN <<ProcessInfo(Head(table).Pid, Num(Head(table).CPU, 10), Head(table).Name)>>
          ELSE <<>>)
         \o Candidates(Tail(table))

\* the utility of a supported platform ran
Listed ==
    /\ strategy = "command"
    /\ InSteps("acquire")
    /\ host.GOOS \in {"darwin", "linux", "windows"}
    /\ ~host.cmdFails

AcquisitionFails ==
    \/ strategy = "command" /\ host.GOOS \notin {"darwin", "linux", "windows"}
    \/ strategy = "command" /\ host.cmdFails
    \/ strategy = "direct" /\ host.enumFails

\* C7: when process acquisition fails the run ends CRITICAL with an error,
\* whatever usedPct and the thresholds are, and prints no usage line.
C7_AcquisitionFailureCritical ==
    (InSteps("acquire") /\ AcquisitionFails) =>
        /\ pc = "done"
        /\ status = CheckStateCritical
        /\ err # ""
        /\ printed = ""

\* the listing utility exited with an error while the usage was below both thresholds
C7_Witness ==
    /\ InSteps("acquire")
    /\ strategy = "command"
    /\ host.GOOS = "linux"
    /\ host.cmdFails
    /\ ~FGt(usedPct, plugin.Warning)
    /\ status = CheckStateCritical

\* C8: for snapshots with T > 0 the ten category percentages sum to 100 and
\* usedPct is the sum of the nine percentages other than idle.
C8_PercentagesSumTo100 ==
    (Sampled /\ TotalDelta > 0) =>
        /\ \A c \in Categories : FEq(pct[c], Num(100 * (end[c] - start[c]), TotalDelta))
        /\ FEq(SumPct(Categories), FInt(100))
        /\ FEq(usedPct, SumPct(NonIdle))

\* an interval with idle time and guest-nice time, with guest-nice time before it
C8_Witness ==
    /\ Sampled
    /\ TotalDelta > 0
    /\ start.GuestNice > 0
    /\ end.GuestNice > start.GuestNice
    /\ end.Idle > start.Idle

\* C9: the steps of a run happen in the order validation, snapshot A, sleep,
\* snapshot B, process acquisition, report, each at most once, and a step that
\* fails is the last step of the run.
C9_OrderedNoRetry ==
    /\ IsPrefix(steps, RunOrder)
    /\ err # "" => pc = "done"
    /\ (InSteps("checkArgs") /\ checkArgs(plugin).err # "") => steps = UpTo("checkArgs")
    /\ (InSteps("snapA") /\ host.failA) => (steps = UpTo("snapA") /\ err # "")
    /\ (InSteps("snapB") /\ host.failB) => (steps = UpTo("snapB") /\ err # "")
    /\ (InSteps("acquire") /\ AcquisitionFails) => (steps = UpTo("acquire") /\ err # "")
    /\ pc = "done" => (err # "" \/ steps = RunOrder)

\* a run that stopped at a failed snapshot A
C9_Witness ==
    /\ host.failA
    /\ pc = "done"
    /\ steps = UpTo("snapA")
    /\ status = CheckStateCritical

RECURSIVE Answered(_)
\* the entries for the handles whose two queries both succeeded, in order
Answered(handles) ==
    IF handles = <<>> THEN <<>>
    ELSE (IF \E i \in 1..Len(queried) :
                queried[i] = Answer(Head(handles), TRUE, TRUE)
          THEN <<ProcessInfo(Head(handles).Pid, Num(Head(handles).CPU, 10),
                             Head(handles).Name)>>
          ELSE <<>>)
         \o Answered(Tail(handles))

\* C10: in the direct revision a process whose CPU-percent or name query
\* fails is left out and the acquisition goes on; every process whose two
\* queries succeed is a candidate; the acquisition fails only when the
\* enumeration fails.
C10_ExitedProcessesSkipped ==
    (strategy = "direct" /\ InSteps("acquire")) =>
        /\ (err # "") = host.enumFails
        /\ pc \in {"rank", "report", "done"} =>
              \/ host.enumFails
              \/ /\ Len(queried) = Len(procs)
                 /\ \A i \in 1..Len(procs) : queried[i].Pid = procs[i].Pid
                 /\ processes = Answered(procs)
                 /\ \A i \in 1..Len(procs) : IsAlive(procs[i]) =>
                       \E j \in 1..Len(processes) : processes[j].PID = procs[i].Pid

\* a process exited between its two queries, and the one after it was listed
C10_Witness ==
    /\ strategy = "direct"
    /\ Returned
    /\ Len(procs) = 2
    /\ queried = <<Answer(procs[1], TRUE, FALSE), Answer(procs[2], TRUE, TRUE)>>
    /\ Len(processes) = 1
    /\ processes[1].PID = procs[2].Pid

====
